---- MODULE Spec2Model ----
(***************************************************************************)
(* A model of the SCRAM client authenticator of pyxmpp2                    *)
(* (src/pyxmpp2/sasl/scram.py).                                            *)
(*                                                                         *)
(* Byte strings are sequences over 0..255 and unicode text is a sequence   *)
(* of code points.  Python's None and False are the one-element sequences  *)
(* None and False below, which no byte string or text equals.              *)
(***************************************************************************)
EXTENDS Integers, Sequences, FiniteSets, TLC

VARIABLES
    channel_binding,            \* self.channel_binding
    username,                   \* self.username
    password,                   \* self.password
    authzid,                    \* self.authzid
    c_nonce,                    \* self._c_nonce
    server_first_message,       \* self._server_first_message
    client_first_message_bare,  \* self._client_first_message_bare
    gs2_header,                 \* self._gs2_header
    finished,                   \* self._finished
    auth_message,               \* self._auth_message
    salted_password,            \* self._salted_password
    cb_data,                    \* self._cb_data
    call,                       \* the last call made on the session
    ret,                        \* what that call returned or raised
    tick,                       \* flips at every call
    server_verified,            \* history: a matching verifier was processed
    nonce_rejected,             \* history: a server-first failed the nonce check
    starts,                     \* the number of start() calls made
    hi_frame,                   \* a call of Hi: its arguments and locals
    xor_frame,                  \* a call of XOR: its arguments and result
    sessions,                   \* two sessions: the fields of each
    threads,                    \* the call each of the two is in
    alone                       \* each of the two as if run by itself

vars == << channel_binding, username, password, authzid, c_nonce,
           server_first_message, client_first_message_bare, gs2_header,
           finished, auth_message, salted_password, cb_data, call, ret, tick,
           server_verified, nonce_rejected, starts, hi_frame, xor_frame,
           sessions, threads, alone >>

-----------------------------------------------------------------------------
(* Bounds of the model. *)

\* Largest iteration count a server-first message of the model carries.
MaxIter == 2

\* The number of start() calls made on one session.
MaxStarts == 2

-----------------------------------------------------------------------------
(* Python values. *)

\* sys.version_info.major >= 3: the model is of the module run by Python 3,
\* where binascii.Error is a ValueError and dict.keys() is a view.
python3 == TRUE

None == << -1 >>
False == << -2 >>

\* Python truth value of None, False, a byte string or a text.
Truthy(x) == x /= None /\ x /= False /\ x /= << >>

\* The printable ASCII characters, from code 32 (space) to code 126 (the
\* grave accent, code 96, cannot be written in a string and is named).
AsciiTable ==
    << " ", "!", "\"", "#", "$", "%", "&", "'", "(", ")", "*", "+", ",", "-",
       ".", "/", "0", "1", "2", "3", "4", "5", "6", "7", "8", "9", ":", ";",
       "<", "=", ">", "?", "@", "A", "B", "C", "D", "E", "F", "G", "H", "I",
       "J", "K", "L", "M", "N", "O", "P", "Q", "R", "S", "T", "U", "V", "W",
       "X", "Y", "Z", "[", "\\", "]", "^", "_", "grave", "a", "b", "c", "d", "e",
       "f", "g", "h", "i", "j", "k", "l", "m", "n", "o", "p", "q", "r", "s",
       "t", "u", "v", "w", "x", "y", "z", "{", "|", "}", "~" >>

Ord(c) == 31 + (CHOOSE i \in 1..Len(AsciiTable) : AsciiTable[i] = c)

\* The byte string (or ASCII text) written as a sequence of characters.
B(chars) == [i \in 1..Len(chars) |-> Ord(chars[i])]

Min(a, b) == IF a < b THEN a ELSE b

\* bytes.startswith(prefix), for a prefix that is a byte string.
StartsWith(s, prefix) ==
    /\ Len(prefix) <= Len(s)
    /\ SubSeq(s, 1, Len(prefix)) = prefix

\* s[i:] of Python, with i counted from 1.
From(s, i) == SubSeq(s, i, Len(s))

\* Whether every element of s is in the character class (a set of bytes).
AllIn(s, class) == \A i \in 1..Len(s) : s[i] \in class

\* The length of the longest run of class characters of s from position i.
RECURSIVE Run(_, _, _)
Run(s, i, class) ==
    IF i <= Len(s) /\ s[i] \in class THEN 1 + Run(s, i + 1, class) ELSE 0

\* The position of the first element of s at or after i that is in the class,
\* Len(s) + 1 when there is none.
RECURSIVE Find(_, _, _)
Find(s, i, class) ==
    IF i > Len(s) \/ s[i] \in class THEN i ELSE Find(s, i + 1, class)

\* The decimal digits of a natural number, as a byte string.
RECURSIVE Digits(_)
Digits(n) ==
    IF n < 10 THEN << 48 + n >> ELSE Digits(n \div 10) \o << 48 + (n % 10) >>

\* int(s) for a byte string of decimal digits.
RECURSIVE ParseInt(_)
ParseInt(s) ==
    IF s = << >> THEN 0
    ELSE 10 * ParseInt(SubSeq(s, 1, Len(s) - 1)) + (s[Len(s)] - 48)

\* a ^ b on two bytes.
RECURSIVE XorByte(_, _)
XorByte(a, b) ==
    IF a = 0 THEN b
    ELSE IF b = 0 THEN a
    ELSE 2 * XorByte(a \div 2, b \div 2) + (((a % 2) + (b % 2)) % 2)

-----------------------------------------------------------------------------
(* base64.standard_b64encode and binascii.a2b_base64 of the standard       *)
(* library.                                                                *)

\* The value of a base64 alphabet character, 64 for any other byte.
B64Val(c) ==
    IF c >= 65 /\ c <= 90 THEN c - 65
    ELSE IF c >= 97 /\ c <= 122 THEN c - 71
    ELSE IF c >= 48 /\ c <= 57 THEN c + 4
    ELSE IF c = 43 THEN 62
    ELSE IF c = 47 THEN 63
    ELSE 64

\* The base64 alphabet character of a value in 0..63.
B64Char(v) ==
    IF v < 26 THEN v + 65
    ELSE IF v < 52 THEN v + 71
    ELSE IF v < 62 THEN v - 4
    ELSE IF v = 62 THEN 43
    ELSE 47

RECURSIVE standard_b64encode(_)
standard_b64encode(s) ==
    IF s = << >> THEN << >>
    ELSE IF Len(s) = 1 THEN
        << B64Char(s[1] \div 4), B64Char((s[1] % 4) * 16), 61, 61 >>
    ELSE IF Len(s) = 2 THEN
        << B64Char(s[1] \div 4),
           B64Char((s[1] % 4) * 16 + (s[2] \div 16)),
           B64Char((s[2] % 16) * 4), 61 >>
    ELSE
        << B64Char(s[1] \div 4),
           B64Char((s[1] % 4) * 16 + (s[2] \div 16)),
           B64Char((s[2] % 16) * 4 + (s[3] \div 64)),
           B64Char(s[3] % 64) >> \o standard_b64encode(From(s, 4))

\* The decoder's loop: quad_pos counts the characters of the current group,
\* leftchar holds its unused bits, pads the padding characters just seen.
RECURSIVE A2bLoop(_, _, _, _, _, _)
A2bLoop(data, i, quad_pos, leftchar, pads, out) ==
    IF i > Len(data) THEN
        IF quad_pos /= 0 THEN [ok |-> FALSE, val |-> << >>]
        ELSE [ok |-> TRUE, val |-> out]
    ELSE IF data[i] = 61 THEN
        IF quad_pos >= 2 /\ quad_pos + pads + 1 >= 4
        THEN [ok |-> TRUE, val |-> out]
        ELSE A2bLoop(data, i + 1, quad_pos, leftchar,
                     IF quad_pos >= 2 THEN pads + 1 ELSE pads, out)
    ELSE IF B64Val(data[i]) >= 64 THEN
        A2bLoop(data, i + 1, quad_pos, leftchar, pads, out)
    ELSE LET v == B64Val(data[i]) IN
        CASE quad_pos = 0 -> A2bLoop(data, i + 1, 1, v, 0, out)
          [] quad_pos = 1 ->
                A2bLoop(data, i + 1, 2, v % 16, 0,
                        Append(out, leftchar * 4 + (v \div 16)))
          [] quad_pos = 2 ->
                A2bLoop(data, i + 1, 3, v % 4, 0,
                        Append(out, leftchar * 16 + (v \div 4)))
          [] OTHER ->
                A2bLoop(data, i + 1, 0, 0, 0, Append(out, leftchar * 64 + v))

\* a2b_base64(data): ok is FALSE where the library raises binascii.Error.
a2b_base64(data) == A2bLoop(data, 1, 0, 0, 0, << >>)

-----------------------------------------------------------------------------
(* str.encode("utf-8") and bytes.decode("utf-8").                          *)

Utf8EncodeChar(cp) ==
    IF cp < 128 THEN << cp >>
    ELSE IF cp < 2048 THEN << 192 + (cp \div 64), 128 + (cp % 64) >>
    ELSE IF cp < 65536 THEN
        << 224 + (cp \div 4096), 128 + ((cp \div 64) % 64), 128 + (cp % 64) >>
    ELSE << 240 + (cp \div 262144), 128 + ((cp \div 4096) % 64),
            128 + ((cp \div 64) % 64), 128 + (cp % 64) >>

RECURSIVE Utf8Encode(_)
Utf8Encode(text) ==
    IF text = << >> THEN << >>
    ELSE Utf8EncodeChar(text[1]) \o Utf8Encode(Tail(text))

IsCont(s, i) == i <= Len(s) /\ s[i] >= 128 /\ s[i] <= 191

\* Strict decoding: ok is FALSE where Python raises UnicodeDecodeError.
RECURSIVE Utf8DecodeFrom(_, _, _)
Utf8DecodeFrom(s, i, out) ==
    IF i > Len(s) THEN [ok |-> TRUE, val |-> out]
    ELSE IF s[i] < 128 THEN Utf8DecodeFrom(s, i + 1, Append(out, s[i]))
    ELSE IF s[i] >= 194 /\ s[i] <= 223 /\ IsCont(s, i + 1) THEN
        Utf8DecodeFrom(s, i + 2,
                       Append(out, (s[i] - 192) * 64 + (s[i + 1] - 128)))
    ELSE IF /\ s[i] >= 224 /\ s[i] <= 239
            /\ IsCont(s, i + 1) /\ IsCont(s, i + 2)
            /\ (s[i] = 224 => s[i + 1] >= 160)
            /\ (s[i] = 237 => s[i + 1] <= 159) THEN
        Utf8DecodeFrom(s, i + 3,
                       Append(out, (s[i] - 224) * 4096 + (s[i + 1] - 128) * 64
                                   + (s[i + 2] - 128)))
    ELSE IF /\ s[i] >= 240 /\ s[i] <= 244
            /\ IsCont(s, i + 1) /\ IsCont(s, i + 2) /\ IsCont(s, i + 3)
            /\ (s[i] = 240 => s[i + 1] >= 144)
            /\ (s[i] = 244 => s[i + 1] <= 143) THEN
        Utf8DecodeFrom(s, i + 4,
                       Append(out, (s[i] - 240) * 262144
                                   + (s[i + 1] - 128) * 4096
                                   + (s[i + 2] - 128) * 64 + (s[i + 3] - 128)))
    ELSE [ok |-> FALSE, val |-> << >>]

Utf8Decode(s) == Utf8DecodeFrom(s, 1, << >>)

-----------------------------------------------------------------------------
(* The message grammars.                                                   *)

ValueChars == (33..43) \cup (45..126)
B64Chars == (97..122) \cup (65..90) \cup (48..57) \cup {47, 43, 61}
DigitChars == 48..57
NotNulEq == (1..255) \ {61}
NotComma == (0..255) \ {44}

\* The regular expression's "$": the end of the string, or just before a
\* newline that ends it.
AtEnd(s, i) == i = Len(s) + 1 \/ (i = Len(s) /\ s[i] = 10)

\* "(?:,.*)?$" matched from position i ("." matches no newline).
TailOK(s, i) ==
    \/ AtEnd(s, i)
    \/ i <= Len(s) /\ s[i] = 44 /\ AtEnd(s, Find(s, i + 1, {10}))

\* Whether s holds the bytes lit at position i.
At(s, i, lit) ==
    i + Len(lit) - 1 <= Len(s) /\ SubSeq(s, i, i + Len(lit) - 1) = lit

\* VALUE_CHARS_RE.match(s) is not None.
VALUE_CHARS_RE(s) ==
    Run(s, 1, ValueChars) >= 1 /\ AtEnd(s, 1 + Run(s, 1, ValueChars))

NoMatch ==
    [ok |-> FALSE, mext |-> None, nonce |-> None, salt |-> None,
     iteration_count |-> None, error |-> None, verifier |-> None]

\* "r=<nonce>,s=<salt>,i=<digits>(?:,.*)?$" matched from position i.
ServerFirstRest(s, i, mext) ==
    LET n == Run(s, i + 2, ValueChars)
        sp == i + 2 + n                    \* the comma after the nonce
        m == Run(s, sp + 3, B64Chars)
        ip == sp + 3 + m                   \* the comma after the salt
        d == Run(s, ip + 3, DigitChars)
    IN  IF /\ At(s, i, << 114, 61 >>) /\ n >= 1
           /\ At(s, sp, << 44, 115, 61 >>) /\ m >= 1
           /\ At(s, ip, << 44, 105, 61 >>) /\ d >= 1
           /\ TailOK(s, ip + 3 + d)
        THEN [NoMatch EXCEPT !.ok = TRUE, !.mext = mext,
                             !.nonce = SubSeq(s, i + 2, sp - 1),
                             !.salt = SubSeq(s, sp + 3, ip - 1),
                             !.iteration_count =
                                 SubSeq(s, ip + 3, ip + 2 + d)]
        ELSE NoMatch

\* SERVER_FIRST_MESSAGE_RE.match(s) and its named groups.  An extension
\* "m=...," holds no "=", so it ends at the comma before the "r=" that the
\* first "=" after "m=" belongs to.
SERVER_FIRST_MESSAGE_RE(s) ==
    IF At(s, 1, << 109, 61 >>) THEN
        LET p == Run(s, 3, NotNulEq) + 1 IN
        IF p >= 4 /\ s[p] = 44
        THEN ServerFirstRest(s, p + 1, SubSeq(s, 1, p))
        ELSE NoMatch
    ELSE ServerFirstRest(s, 1, None)

\* SERVER_FINAL_MESSAGE_RE.match(s) and its named groups.
SERVER_FINAL_MESSAGE_RE(s) ==
    IF At(s, 1, << 101, 61 >>) THEN
        IF Len(s) >= 3 /\ AllIn(From(s, 3), NotComma)
        THEN [NoMatch EXCEPT !.ok = TRUE, !.error = From(s, 3)]
        ELSE NoMatch
    ELSE IF At(s, 1, << 118, 61 >>) THEN
        LET m == Run(s, 3, B64Chars) IN
        IF m >= 1 /\ TailOK(s, 3 + m)
        THEN [NoMatch EXCEPT !.ok = TRUE, !.verifier = SubSeq(s, 3, 2 + m)]
        ELSE NoMatch
    ELSE NoMatch

-----------------------------------------------------------------------------
(* SCRAMOperations.  The hash function itself (hashlib.sha1) is outside    *)
(* the repository: it is modelled by a checksum of the same digest size,   *)
(* a deterministic function of its input; HMAC, XOR and Hi are built on it *)
(* the way the code and the hmac module build them.                        *)

\* SHA-1's digest size, self.digest_size of the registered mechanisms.
digest_size == 20

\* The sum of i * x[i] for i in lo..hi, halving the range (lo <= hi).
RECURSIVE RangeSum(_, _, _)
RangeSum(x, lo, hi) ==
    IF lo = hi THEN lo * x[lo]
    ELSE IF lo + 1 = hi THEN lo * x[lo] + hi * x[hi]
    ELSE LET mid == (lo + hi) \div 2
         IN  RangeSum(x, lo, mid) + RangeSum(x, mid + 1, hi)

WeightedSum(x) == IF x = << >> THEN 0 ELSE RangeSum(x, 1, Len(x))

\* self.hash_factory(str_).digest()
hash_factory(str_) ==
    LET c == WeightedSum(str_) + 7 * Len(str_)
    IN  [i \in 1..digest_size |->
            (c * (2 * i + 1) + (c \div 256) * (i + 3) + 31 * i) % 256]

\* The H(str) function.
H(str_) == hash_factory(str_)

\* The HMAC(key, str) function: hmac.new(key, str_, hash_factory).digest(),
\* a hash of the key and the message.  A message of None is no message
\* (hmac.new's default).
HMAC(key, str_) ==
    hash_factory(<< 92 >> \o key \o << 54 >>
                     \o (IF str_ = None THEN << >> ELSE str_))

\* The XOR operator for two byte strings: zip() stops at the shorter one.
XOR(str1, str2) ==
    [k \in 1..Min(Len(str1), Len(str2)) |-> XorByte(str1[k], str2[k])]

\* A loop over range(2, i): one round short.
HiStopsEarly(j, i) == j < i

\* Hi, line 113: j is in range(2, i + 1), given that j >= 2.
HiContinues(j, i) == j <= i

\* The loop of Hi: for _ in range(2, i + 1).
RECURSIVE HiLoop(_, _, _, _, _)
HiLoop(str_, Uj, result, j, i) ==
    IF ~HiContinues(j, i) THEN result
    ELSE LET U == HMAC(str_, Uj)
         IN  HiLoop(str_, U, XOR(result, U), j + 1, i)

\* The Hi(str, salt, i) function.
Hi(str_, salt, i) ==
    LET U1 == HMAC(str_, salt \o << 0, 0, 0, 1 >>)
    IN  HiLoop(str_, U1, U1, 2, i)

\* SASLPREP.prepare(text) of pyxmpp2.sasl.saslprep: code points mapped to
\* nothing are dropped, non-ASCII spaces become U+0020, and a prohibited
\* code point (here a control character) is an error (ok is FALSE).
SaslprepPrepare(text) ==
    LET kept == SelectSeq(text, LAMBDA cp : cp \notin {173, 8203, 8204, 8205})
        mapped == [i \in 1..Len(kept) |->
                      IF kept[i] \in {160, 8192, 8193, 12288} THEN 32
                      ELSE kept[i]]
    IN  IF \E i \in 1..Len(mapped) :
               mapped[i] < 32 \/ (mapped[i] >= 127 /\ mapped[i] <= 159)
        THEN [ok |-> FALSE, val |-> << >>]
        ELSE [ok |-> TRUE, val |-> mapped]

\* The Normalize(str) function, for a unicode str_.
Normalize(str_) ==
    LET prepared == SaslprepPrepare(str_)
    IN  IF prepared.ok
        THEN [ok |-> TRUE, val |-> Utf8Encode(prepared.val)]
        ELSE [ok |-> FALSE, val |-> << >>]

-----------------------------------------------------------------------------
(* The outcome of a call: a sasl.Response, sasl.Failure or sasl.Success,   *)
(* or the exception the call raised.                                       *)

Response(data) ==
    [kind |-> "Response", data |-> data, username |-> None, authzid |-> None,
     exc |-> ""]
Failure(reason) ==
    [kind |-> "Failure", data |-> reason, username |-> None, authzid |-> None,
     exc |-> ""]
Success(user, authz) ==
    [kind |-> "Success", data |-> None, username |-> user, authzid |-> authz,
     exc |-> ""]
Raised(exception) ==
    [kind |-> "Raised", data |-> None, username |-> None, authzid |-> None,
     exc |-> exception]

\* A handler's result: the session's fields after it, and its outcome.
Out(s, r) == [self |-> s, ret |-> r]

BAD_CHALLENGE == B(<< "b", "a", "d", "-", "c", "h", "a", "l", "l", "e", "n", "g", "e" >>)
EXTRA_CHALLENGE == B(<< "e", "x", "t", "r", "a", "-", "c", "h", "a", "l", "l", "e", "n", "g", "e" >>)
BAD_SUCCES == B(<< "b", "a", "d", "-", "s", "u", "c", "c", "e", "s" >>)
BAD_SUCCESS == B(<< "b", "a", "d", "-", "s", "u", "c", "c", "e", "s", "s" >>)
SCRAM_PREFIX == B(<< "s", "c", "r", "a", "m", "-" >>)
CLIENT_KEY == B(<< "C", "l", "i", "e", "n", "t", " ", "K", "e", "y" >>)
SERVER_KEY == B(<< "S", "e", "r", "v", "e", "r", " ", "K", "e", "y" >>)
TLS_UNIQUE == B(<< "t", "l", "s", "-", "u", "n", "i", "q", "u", "e" >>)
TLS_SERVER_END_POINT == B(<< "t", "l", "s", "-", "s", "e", "r", "v", "e", "r", "-", "e", "n", "d", "-", "p", "o", "i", "n", "t" >>)
SCRAM_SHA_1 == B(<< "S", "C", "R", "A", "M", "-", "S", "H", "A", "-", "1" >>)
PLUS == B(<< "-", "P", "L", "U", "S" >>)

-----------------------------------------------------------------------------
(* SCRAMClientAuthenticator.                                               *)

\* self.name for the hash name "SHA-1".
MechanismName(binding) ==
    SCRAM_SHA_1 \o (IF binding THEN PLUS ELSE << >>)

\* The fields of the session.
Self ==
    [channel_binding |-> channel_binding, username |-> username,
     password |-> password, authzid |-> authzid, c_nonce |-> c_nonce,
     server_first_message |-> server_first_message,
     client_first_message_bare |-> client_first_message_bare,
     gs2_header |-> gs2_header, finished |-> finished,
     auth_message |-> auth_message, salted_password |-> salted_password,
     cb_data |-> cb_data]

\* The session __init__ leaves.
NewSession(binding) ==
    [channel_binding |-> binding, username |-> None, password |-> None,
     authzid |-> None, c_nonce |-> None, server_first_message |-> False,
     client_first_message_bare |-> False, gs2_header |-> None,
     finished |-> FALSE, auth_message |-> None, salted_password |-> None,
     cb_data |-> None]

HasKey(items, key) == \E i \in 1..Len(items) : items[i].type = key
Lookup(items, key) ==
    items[CHOOSE i \in 1..Len(items) : items[i].type = key].data

\* A start() that never takes the branch of line 168.
BindingNotRequired(s) == FALSE

\* start(), line 168: if self.channel_binding.
RequiresBinding(s) == s.channel_binding

\* start(), lines 168-185: the channel-binding flag and data, or the
\* exception raised while choosing them.
StartBinding(s, properties) ==
    LET binding == properties.channel_binding
        chosen(cb_type) ==
            [exc |-> "", cb_data |-> Lookup(binding.items, cb_type),
             cb_flag |-> << 112, 61 >> \o Utf8Encode(cb_type)]
    IN  IF RequiresBinding(s) THEN
            IF ~binding.present \/ binding.items = << >>
            THEN [exc |-> "ValueError", cb_data |-> None, cb_flag |-> None]
            ELSE IF HasKey(binding.items, TLS_UNIQUE) THEN chosen(TLS_UNIQUE)
            ELSE IF HasKey(binding.items, TLS_SERVER_END_POINT)
            THEN chosen(TLS_SERVER_END_POINT)
            ELSE IF python3     \* cb_data.keys()[0] on a dict view
            THEN [exc |-> "TypeError", cb_data |-> None, cb_flag |-> None]
            ELSE chosen(binding.items[1].type)
        ELSE IF MechanismName(s.channel_binding) \o PLUS
                    \in properties.enabled_mechanisms
        THEN [exc |-> "", cb_data |-> s.cb_data, cb_flag |-> << 121 >>]
        ELSE [exc |-> "", cb_data |-> s.cb_data, cb_flag |-> << 110 >>]

\* start(properties); properties.nonce is what the nonce factory returns.
start(s, properties) ==
    IF properties.username = None THEN Out(s, Raised("KeyError"))
    ELSE IF properties.password = None
    THEN Out([s EXCEPT !.username = properties.username], Raised("KeyError"))
    ELSE
    LET s1 == [s EXCEPT
                !.username = properties.username,
                !.password = properties.password,
                !.authzid = IF properties.authzid = None THEN << >>
                            ELSE properties.authzid,
                !.c_nonce = IF VALUE_CHARS_RE(properties.nonce)
                            THEN properties.nonce
                            ELSE standard_b64encode(properties.nonce)]
        cb == StartBinding(s1, properties)
        authzid_ == IF Truthy(s1.authzid)
                    THEN << 97, 61 >> \o Utf8Encode(s1.authzid)
                    ELSE << >>
        gs2_header_ == cb.cb_flag \o << 44 >> \o authzid_ \o << 44 >>
        nonce == << 114, 61 >> \o s1.c_nonce
        client_first_message_bare_ ==
            << 110, 61 >> \o Utf8Encode(s1.username) \o << 44 >> \o nonce
    IN  IF cb.exc /= "" THEN Out(s1, Raised(cb.exc))
        ELSE Out([s1 EXCEPT
                    !.cb_data = cb.cb_data,
                    !.gs2_header = gs2_header_,
                    !.client_first_message_bare = client_first_message_bare_],
                 Response(gs2_header_ \o client_first_message_bare_))

\* A _make_response that leaves the channel-binding data out of "c=".
HeaderOnly(s) == s.gs2_header

\* _make_response, lines 261-265: what "c=" carries, before its encoding.
BoundData(s) ==
    IF s.channel_binding THEN s.gs2_header \o s.cb_data ELSE s.gs2_header

\* A _make_response that leaves the server-first message out of the auth
\* message.
AuthMessageWithoutServerFirst(first_bare, server_first, final_without_proof) ==
    first_bare \o << 44 >> \o final_without_proof

\* _make_response, lines 272-274: the auth message.
AuthMessage(first_bare, server_first, final_without_proof) ==
    first_bare \o << 44 >> \o server_first \o << 44 >> \o final_without_proof

\* _make_response(nonce, salt, iteration_count)
make_response(s, nonce, salt, iteration_count) ==
    LET normalized == Normalize(s.password)
        s1 == [s EXCEPT
                !.salted_password = Hi(normalized.val, salt, iteration_count),
                !.password = None]
        channel_binding_ == << 99, 61 >> \o standard_b64encode(BoundData(s))
        client_final_message_without_proof ==
            channel_binding_ \o << 44, 114, 61 >> \o nonce
        client_key == HMAC(s1.salted_password, CLIENT_KEY)
        stored_key == H(client_key)
        auth_message_ ==
            AuthMessage(s.client_first_message_bare, s.server_first_message,
                        client_final_message_without_proof)
        client_signature == HMAC(stored_key, auth_message_)
        client_proof == XOR(client_key, client_signature)
        proof == << 112, 61 >> \o standard_b64encode(client_proof)
    IN  IF s.password = None THEN Out(s, Raised("TypeError"))
        ELSE IF ~normalized.ok THEN Out(s, Raised("StringprepError"))
        ELSE IF s.gs2_header = None \/ (s.channel_binding /\ s.cb_data = None)
        THEN Out(s1, Raised("TypeError"))    \* None in a concatenation
        ELSE IF s.client_first_message_bare = False
        THEN Out(s1, Raised("TypeError"))
        ELSE Out([s1 EXCEPT !.auth_message = auth_message_],
                 Response(client_final_message_without_proof \o << 44 >>
                              \o proof))

\* A _final_challenge that forgets the check of line 295.
AlreadyFinishedIgnored(s) == FALSE

\* _final_challenge, line 295: the session already accepted a verifier.
AlreadyFinished(s) == s.finished

\* A comparison at line 315 that is left out: every verifier is accepted.
SignatureMismatchSkipped(server_signature, verifier) == FALSE

\* A comparison at line 315 of the lengths only.
SignatureLengthMismatch(server_signature, verifier) ==
    Len(server_signature) /= Len(verifier)

\* _final_challenge, line 315: server_signature != a2b_base64(verifier).
SignatureMismatch(server_signature, verifier) == server_signature /= verifier

\* _final_challenge(challenge)
final_challenge(s, data) ==
    IF AlreadyFinished(s) THEN Out(s, Failure(EXTRA_CHALLENGE))
    ELSE IF data = None THEN Out(s, Raised("TypeError"))  \* match(None)
    ELSE
    LET match == SERVER_FINAL_MESSAGE_RE(data)
        error == Utf8Decode(match.error)
        server_key == HMAC(s.salted_password, SERVER_KEY)
        server_signature == HMAC(server_key, s.auth_message)
        verifier == a2b_base64(match.verifier)
    IN  IF ~match.ok THEN Out(s, Failure(BAD_CHALLENGE))
        ELSE IF Truthy(match.error) THEN
            IF error.ok THEN Out(s, Failure(SCRAM_PREFIX \o error.val))
            ELSE Out(s, Raised("UnicodeDecodeError"))
        ELSE IF ~Truthy(match.verifier) THEN Out(s, Failure(BAD_SUCCES))
        ELSE IF s.salted_password = None
        THEN Out(s, Raised("TypeError"))     \* hmac.new(None, ...)
        ELSE IF ~verifier.ok THEN Out(s, Raised("binascii.Error"))
        ELSE IF SignatureMismatch(server_signature, verifier.val)
        THEN Out(s, Failure(BAD_SUCCES))
        ELSE Out([s EXCEPT !.finished = TRUE], Response(None))

\* A challenge() that records the server-first message only once it is
\* accepted: a rejected one leaves the session as it was.
ServerFirstNotRecorded(s, data) == s

\* challenge(), line 224: self._server_first_message = challenge.
RecordServerFirst(s, data) == [s EXCEPT !.server_first_message = data]

\* A challenge() that takes every message for a server-first message.
AlwaysServerFirst(s) == FALSE

\* challenge(), line 216: if self._server_first_message.
ServerFirstSeen(s) == Truthy(s.server_first_message)

\* challenge(challenge)
challenge(s, data) ==
    IF ~Truthy(data) THEN Out(s, Failure(BAD_CHALLENGE))
    ELSE IF ServerFirstSeen(s) THEN final_challenge(s, data)
    ELSE
    LET match == SERVER_FIRST_MESSAGE_RE(data)
        s1 == RecordServerFirst(s, data)
        salt == a2b_base64(match.salt)
    IN  IF ~match.ok THEN Out(s, Failure(BAD_CHALLENGE))
        ELSE IF Truthy(match.mext) THEN Out(s1, Failure(BAD_CHALLENGE))
        ELSE IF s1.c_nonce = None
        THEN Out(s1, Raised("TypeError"))    \* nonce.startswith(None)
        ELSE IF ~StartsWith(match.nonce, s1.c_nonce)
        THEN Out(s1, Failure(BAD_CHALLENGE))
        ELSE IF ~salt.ok THEN
            \* binascii.Error is a ValueError from Python 3 on only
            IF python3 THEN Out(s1, Failure(BAD_CHALLENGE))
            ELSE Out(s1, Raised("binascii.Error"))
        ELSE make_response(s1, match.nonce, salt.val,
                           ParseInt(match.iteration_count))

\* finish(data)
finish(s, data) ==
    IF ~Truthy(s.server_first_message) THEN Out(s, Failure(BAD_SUCCESS))
    ELSE IF s.finished THEN Out(s, Success(s.username, s.authzid))
    ELSE
    LET r == final_challenge(s, data)
    IN  IF r.ret.kind = "Raised" \/ r.ret.kind = "Failure" THEN r
        ELSE IF r.self.finished
        THEN Out(r.self, Success(r.self.username, r.self.authzid))
        ELSE Out(r.self, Failure(BAD_SUCCESS))

-----------------------------------------------------------------------------
(* The calls made on a session: the credentials given to start() and the   *)
(* server's messages given to challenge() and finish().                    *)

NoBinding == [present |-> FALSE, items |-> << >>]
NoProperties ==
    [username |-> None, password |-> None, authzid |-> None, nonce |-> None,
     channel_binding |-> NoBinding, enabled_mechanisms |-> {}]

USER_ANN == B(<< "a", "n", "n" >>)
USER_BOB == B(<< "b", "o", "b" >>)
PASSWORD == B(<< "p", "w" >>)
\* "p" followed by U+0007, which the normalisation profile prohibits.
PROHIBITED_PASSWORD == << 112, 7 >>
AUTHZID == B(<< "a", "d", "m" >>)
NONCE_PLAIN == B(<< "a", "b", "c" >>)
\* A nonce with a comma: not made of value characters, so start() encodes it.
NONCE_COMMA == B(<< "a", ",", "b" >>)
\* A username with a comma.
USER_COMMA == B(<< "c", ",", "d" >>)

PlainProperties ==
    [NoProperties EXCEPT !.username = USER_ANN, !.password = PASSWORD,
                         !.nonce = NONCE_PLAIN]

\* The property mappings start() is called with: those of a session without
\* channel binding carry none, those of a session with it carry a binding
\* of each type, an empty one, or none.
StartInputs(s) ==
    IF ~s.channel_binding THEN
        { PlainProperties,
          [PlainProperties EXCEPT
              !.username = USER_BOB, !.authzid = AUTHZID,
              !.nonce = NONCE_COMMA,
              !.enabled_mechanisms = {MechanismName(TRUE)}],
          [PlainProperties EXCEPT !.password = PROHIBITED_PASSWORD],
          [PlainProperties EXCEPT !.password = None],
          [PlainProperties EXCEPT !.username = USER_COMMA] }
    ELSE
        { [PlainProperties EXCEPT
              !.channel_binding =
                  [present |-> TRUE,
                   items |-> << [type |-> TLS_UNIQUE,
                                 data |-> << 1, 2 >>] >>]],
          [PlainProperties EXCEPT
              !.username = USER_BOB, !.authzid = AUTHZID,
              !.nonce = NONCE_COMMA,
              !.channel_binding =
                  [present |-> TRUE,
                   items |-> << [type |-> TLS_SERVER_END_POINT,
                                 data |-> << 3 >>] >>]],
          [PlainProperties EXCEPT
              !.channel_binding =
                  [present |-> TRUE,
                   items |-> << [type |-> << 120 >>, data |-> << 4 >>] >>]],
          [PlainProperties EXCEPT
              !.channel_binding = [present |-> TRUE, items |-> << >>]],
          PlainProperties }

\* A server-first message with the given parts.
ServerFirst(mext, nonce, salt, iteration_count, extensions) ==
    mext \o << 114, 61 >> \o nonce \o << 44, 115, 61 >> \o salt
         \o << 44, 105, 61 >> \o iteration_count \o extensions

\* A server's error token.
OTHER_ERROR == B(<< "o", "t", "h", "e", "r", "-", "e", "r", "r", "o", "r" >>)
SALT == B(<< "Q", "Q", "=", "=" >>)
BAD_BASE64 == B(<< "Q", "Q" >>)
EXTENSION == B(<< ",", "x", "=", "y" >>)

\* The signature an honest server computes for the session.
ServerSignature(s) == HMAC(HMAC(s.salted_password, SERVER_KEY), s.auth_message)

\* A byte string that differs from sig in its first byte.
Tampered(sig) == [sig EXCEPT ![1] = XorByte(sig[1], 1)]

\* The server-first messages sent to a session whose client nonce is cn.
ServerFirstInputs(cn) ==
    { ServerFirst(<< >>, cn \o << 83 >>, SALT, Digits(n), << >>) :
          n \in 0..MaxIter }
    \cup
    { ServerFirst(<< >>, cn \o << 83 >>, SALT, << 49 >>, EXTENSION),
      ServerFirst(<< 109, 61, 120, 44 >>, cn \o << 83 >>, SALT, << 49 >>,
                  << >>),
      ServerFirst(<< >>, << 122, 122 >>, SALT, << 49 >>, << >>),
      ServerFirst(<< >>, cn, SALT, << 49 >>, << >>),
      ServerFirst(<< >>, cn \o << 83 >>, BAD_BASE64, << 49 >>, << >>),
      ServerFirst(<< >>, cn \o << 83 >>, SALT, << 120 >>, << >>) }

\* The server-final messages sent to a session.
ServerFinalInputs(s) ==
    LET sig == IF s.salted_password = None THEN [i \in 1..digest_size |-> 0]
               ELSE ServerSignature(s)
    IN  { << 118, 61 >> \o standard_b64encode(sig),
          << 118, 61 >> \o standard_b64encode(Tampered(sig)),
          << 118, 61 >> \o BAD_BASE64,
          << 101, 61 >> \o OTHER_ERROR,
          << 101, 61, 255 >> }

\* What challenge() and finish() are called with: the messages of the step
\* the session is at and one of the other step, the empty byte string, no
\* data at all, and bytes of neither grammar.
MessageInputs(s) ==
    LET cn == IF s.c_nonce = None THEN NONCE_PLAIN ELSE s.c_nonce
        sig == IF s.salted_password = None THEN [i \in 1..digest_size |-> 0]
               ELSE ServerSignature(s)
    IN  (IF Truthy(s.server_first_message)
         THEN ServerFinalInputs(s)
                  \cup { ServerFirst(<< >>, cn \o << 83 >>, SALT, << 49 >>,
                                     << >>) }
         ELSE ServerFirstInputs(cn)
                  \cup { << 118, 61 >> \o standard_b64encode(sig) })
        \cup { << >>, None, << 120 >> }

-----------------------------------------------------------------------------
(* The state machine.                                                      *)

NoCall == [op |-> "none", arg |-> None, properties |-> NoProperties]

\* No call of Hi and no call of XOR is under way.
NoHi ==
    [str_ |-> None, salt |-> None, i |-> 0, j |-> 0, Uj |-> None,
     result |-> None, calls |-> 0, pc |-> "none"]
NoXOR ==
    [str1 |-> None, str2 |-> None, ret |-> [kind |-> "none", value |-> None],
     called |-> FALSE]
\* The two sessions of the pair.
Sessions == { 1, 2 }
PairUnchanged == UNCHANGED << sessions, threads, alone >>
NoReturn ==
    [kind |-> "none", data |-> None, username |-> None, authzid |-> None,
     exc |-> ""]

\* A session that is in no call and has made none.
NoThread ==
    [pc |-> "idle", op |-> "none",
     r |-> [self |-> NewSession(FALSE), ret |-> NoReturn], ret |-> NoReturn]

\* Two sessions as their constructors leave them.
PairIdle ==
    /\ sessions = [k \in Sessions |-> NewSession(FALSE)]
    /\ threads = [k \in Sessions |-> NoThread]
    /\ alone = [k \in Sessions |-> [self |-> NewSession(FALSE),
                                    ret |-> NoReturn]]

\* No pair of sessions has been constructed.
NoPair ==
    /\ sessions = << >>
    /\ threads = << >>
    /\ alone = << >>

Init ==
    /\ channel_binding \in BOOLEAN
    /\ username = None
    /\ password = None
    /\ authzid = None
    /\ c_nonce = None
    /\ server_first_message = False
    /\ client_first_message_bare = False
    /\ gs2_header = None
    /\ finished = FALSE
    /\ auth_message = None
    /\ salted_password = None
    /\ cb_data = None
    /\ call = NoCall
    /\ ret = NoReturn
    /\ tick = FALSE
    /\ server_verified = FALSE
    /\ nonce_rejected = FALSE
    /\ starts = 0
    /\ hi_frame = NoHi
    /\ xor_frame = NoXOR
    /\ NoPair

\* The handler's result r becomes the session's fields and the outcome.
Apply(r) ==
    /\ username' = r.self.username
    /\ password' = r.self.password
    /\ authzid' = r.self.authzid
    /\ c_nonce' = r.self.c_nonce
    /\ server_first_message' = r.self.server_first_message
    /\ client_first_message_bare' = r.self.client_first_message_bare
    /\ gs2_header' = r.self.gs2_header
    /\ finished' = r.self.finished
    /\ auth_message' = r.self.auth_message
    /\ salted_password' = r.self.salted_password
    /\ cb_data' = r.self.cb_data
    /\ ret' = r.ret
    /\ tick' = ~tick
    /\ UNCHANGED channel_binding

\* The call hands the server-final step a verifier that decodes to the
\* signature computed from the session's salted password and auth message.
VerifierMatches(s, data) ==
    /\ data /= None
    /\ Truthy(s.server_first_message)
    /\ s.salted_password /= None
    /\ LET match == SERVER_FINAL_MESSAGE_RE(data)
           verifier == a2b_base64(match.verifier)
       IN  /\ match.ok
           /\ Truthy(match.verifier)
           /\ verifier.ok
           /\ verifier.val = ServerSignature(s)

\* The session has sent its client-first message and recorded no
\* server-first message yet.
AwaitingServerFirst(s) ==
    /\ s.client_first_message_bare /= False
    /\ ~Truthy(s.server_first_message)

\* The call is a server-first message without extension whose nonce does not
\* start with the client nonce, given to a session awaiting it.
NonceMismatch(s, data) ==
    /\ Truthy(data)
    /\ AwaitingServerFirst(s)
    /\ LET match == SERVER_FIRST_MESSAGE_RE(data)
       IN  /\ match.ok
           /\ ~Truthy(match.mext)
           /\ ~StartsWith(match.nonce, s.c_nonce)

Start ==
    \E properties \in StartInputs(Self) :
        /\ starts < MaxStarts
        /\ starts' = starts + 1
        /\ \E r \in {start(Self, properties)} : Apply(r)
        /\ call' = [op |-> "start", arg |-> None, properties |-> properties]
        /\ UNCHANGED << server_verified, nonce_rejected, hi_frame, xor_frame >>
        /\ PairUnchanged

Challenge ==
    \E data \in MessageInputs(Self) :
        /\ \E r \in {challenge(Self, data)} : Apply(r)
        /\ call' = [op |-> "challenge", arg |-> data,
                    properties |-> NoProperties]
        /\ server_verified' =
               (server_verified \/ (Truthy(data) /\ VerifierMatches(Self, data)))
        /\ nonce_rejected' = (nonce_rejected \/ NonceMismatch(Self, data))
        /\ UNCHANGED << starts, hi_frame, xor_frame >>
        /\ PairUnchanged

Finish ==
    \E data \in MessageInputs(Self) :
        /\ \E r \in {finish(Self, data)} : Apply(r)
        /\ call' = [op |-> "finish", arg |-> data,
                    properties |-> NoProperties]
        /\ server_verified' = (server_verified \/ VerifierMatches(Self, data))
        /\ UNCHANGED << nonce_rejected, starts, hi_frame, xor_frame >>
        /\ PairUnchanged

Next == Start \/ Challenge \/ Finish

Spec == Init /\ [][Next]_vars

-----------------------------------------------------------------------------
(* The operations of SCRAMOperations on their own: a call of Hi, run one   *)
(* statement at a time, and a call of XOR.                                 *)

\* The fields of the lone session keep the values of a new session.
SessionIdle ==
    /\ channel_binding = FALSE
    /\ username = None
    /\ password = None
    /\ authzid = None
    /\ c_nonce = None
    /\ server_first_message = False
    /\ client_first_message_bare = False
    /\ gs2_header = None
    /\ finished = FALSE
    /\ auth_message = None
    /\ salted_password = None
    /\ cb_data = None
    /\ call = NoCall
    /\ ret = NoReturn
    /\ tick = FALSE
    /\ server_verified = FALSE
    /\ nonce_rejected = FALSE
    /\ starts = 0

SessionUnchanged ==
    UNCHANGED << channel_binding, username, password, authzid, c_nonce,
                 server_first_message, client_first_message_bare,
                 gs2_header, finished, auth_message, salted_password,
                 cb_data, call, ret, tick, server_verified, nonce_rejected,
                 starts >>

\* The passwords (after Normalize), salts and byte strings the operations
\* are called with.
HiPasswords == { Utf8Encode(PASSWORD), << 112 >>, << >> }
HiSalts == { << 65 >>, << 1, 2 >>, << >> }
XorInputs ==
    { << >>, << 1 >>, << 254 >>, << 1, 2 >>, << 255, 0 >>, << 7, 8, 9 >> }

\* What a call of XOR gives back.
Returned(value) == [kind |-> "Returned", value |-> value]

InitOps ==
    /\ SessionIdle
    /\ hi_frame \in
           { [NoHi EXCEPT !.str_ = p, !.salt = s, !.i = n, !.pc = "enter"] :
                 p \in HiPasswords, s \in HiSalts, n \in 0..MaxIter }
    /\ xor_frame = NoXOR
    /\ NoPair

\* Hi, lines 111-112: U1 and the first value of result.
HiEnter ==
    /\ hi_frame.pc = "enter"
    /\ LET U1 == HMAC(hi_frame.str_, hi_frame.salt \o << 0, 0, 0, 1 >>)
       IN  hi_frame' = [hi_frame EXCEPT !.Uj = U1, !.result = U1, !.j = 2,
                                        !.calls = 1, !.pc = "loop"]
    /\ UNCHANGED xor_frame
    /\ SessionUnchanged
    /\ PairUnchanged

\* Hi, lines 113-115: one round of the loop.
HiIterate ==
    /\ hi_frame.pc = "loop"
    /\ HiContinues(hi_frame.j, hi_frame.i)
    /\ LET U == HMAC(hi_frame.str_, hi_frame.Uj)
       IN  hi_frame' = [hi_frame EXCEPT !.Uj = U,
                                        !.result = XOR(hi_frame.result, U),
                                        !.j = hi_frame.j + 1,
                                        !.calls = hi_frame.calls + 1]
    /\ UNCHANGED xor_frame
    /\ SessionUnchanged
    /\ PairUnchanged

\* Hi, line 116: return result.
HiReturn ==
    /\ hi_frame.pc = "loop"
    /\ ~HiContinues(hi_frame.j, hi_frame.i)
    /\ hi_frame' = [hi_frame EXCEPT !.pc = "done"]
    /\ UNCHANGED xor_frame
    /\ SessionUnchanged
    /\ PairUnchanged

\* XOR(str1, str2), called once, after the call of Hi has returned.
ApplyXOR ==
    /\ ~xor_frame.called
    /\ hi_frame.pc = "done"
    /\ \E a \in XorInputs, b \in XorInputs :
           xor_frame' = [str1 |-> a, str2 |-> b, ret |-> Returned(XOR(a, b)),
                         called |-> TRUE]
    /\ UNCHANGED hi_frame
    /\ SessionUnchanged
    /\ PairUnchanged

HiStep == HiEnter \/ HiIterate \/ HiReturn

NextOps == HiStep \/ ApplyXOR

\* A call of Hi that has begun runs on: nothing suspends it.
SpecOps == InitOps /\ [][NextOps]_vars /\ WF_vars(HiStep)

-----------------------------------------------------------------------------
(* Two sessions, each driven by its own thread: a call reads the fields    *)
(* of its session and its return writes them back, and the calls of the    *)
(* two overlap in every order.                                             *)

PAIR_NONCE == B(<< "x", "y", "z" >>)

\* The properties each of the two is started with.
PairProperties(k) ==
    IF k = 1 THEN PlainProperties
    ELSE [PlainProperties EXCEPT !.username = USER_BOB, !.authzid = AUTHZID,
                                 !.nonce = PAIR_NONCE]

\* The messages a session of the pair is given: the server-first message
\* for its nonce, the verifier an honest server computes for it, a tampered
\* verifier, and the empty byte string.
PairMessages(s) ==
    LET cn == IF s.c_nonce = None THEN NONCE_PLAIN ELSE s.c_nonce
        sig == IF s.salted_password = None \/ s.auth_message = None
               THEN [i \in 1..digest_size |-> 0]
               ELSE ServerSignature(s)
    IN  { ServerFirst(<< >>, cn \o << 83 >>, SALT, << 49 >>, << >>),
          << 118, 61 >> \o standard_b64encode(sig),
          << 118, 61 >> \o standard_b64encode(Tampered(sig)),
          << >> }

\* The fields a call on session k reads: those of its own instance.
OwnFields(all, k) == all[k]

\* A class attribute: the assignment of one instance shows in every other.
StoreOnClass(all, k, fields) ==
    [j \in DOMAIN all |->
        IF j = k THEN fields
        ELSE [all[j] EXCEPT !.finished = fields.finished]]

\* The fields a call on session k assigns: instance attributes, those of
\* no other instance.
Store(all, k, fields) == [all EXCEPT ![k] = fields]

\* The call begins: it works on the fields of its session, and the session
\* run by itself makes the same call.
Enter(k, op, r, lone) ==
    /\ threads' = [threads EXCEPT ![k] = [pc |-> "running", op |-> op,
                                          r |-> r, ret |-> @.ret]]
    /\ alone' = [alone EXCEPT ![k] = lone]
    /\ UNCHANGED sessions

PairStart(k) ==
    /\ threads[k].pc = "idle"
    /\ threads[k].op = "none"
    /\ Enter(k, "start", start(OwnFields(sessions, k), PairProperties(k)),
             start(alone[k].self, PairProperties(k)))
    /\ SessionUnchanged
    /\ UNCHANGED << hi_frame, xor_frame >>

PairChallenge(k) ==
    /\ threads[k].pc = "idle"
    /\ threads[k].op /= "none"
    /\ \E data \in PairMessages(alone[k].self) :
           Enter(k, "challenge", challenge(OwnFields(sessions, k), data),
                 challenge(alone[k].self, data))
    /\ SessionUnchanged
    /\ UNCHANGED << hi_frame, xor_frame >>

PairFinish(k) ==
    /\ threads[k].pc = "idle"
    /\ threads[k].op /= "none"
    /\ \E data \in PairMessages(alone[k].self) :
           Enter(k, "finish", finish(OwnFields(sessions, k), data),
                 finish(alone[k].self, data))
    /\ SessionUnchanged
    /\ UNCHANGED << hi_frame, xor_frame >>

\* The call returns: its assignments are in the session, its outcome with
\* the caller.
PairReturn(k) ==
    /\ threads[k].pc = "running"
    /\ sessions' = Store(sessions, k, threads[k].r.self)
    /\ threads' = [threads EXCEPT ![k] = [@ EXCEPT !.pc = "idle",
                                                   !.ret = threads[k].r.ret]]
    /\ UNCHANGED alone
    /\ SessionUnchanged
    /\ UNCHANGED << hi_frame, xor_frame >>

InitPair ==
    /\ SessionIdle
    /\ hi_frame = NoHi
    /\ xor_frame = NoXOR
    /\ PairIdle

NextPair ==
    \E k \in Sessions :
        PairStart(k) \/ PairChallenge(k) \/ PairFinish(k) \/ PairReturn(k)

SpecPair == InitPair /\ [][NextPair]_vars

-----------------------------------------------------------------------------
(* The states of a session, read from its fields, and the kinds of message *)
(* a call may carry.                                                       *)

\* Nothing has been called on the session since its construction.
FreshSession ==
    starts = 0 /\ Self = NewSession(channel_binding)

\* The server-first message was accepted (the auth message is set) and no
\* verifier has been accepted yet.
AwaitingServerFinal(s) ==
    /\ s.auth_message /= None
    /\ ~s.finished

\* A server-first message without extension, whose nonce starts with the
\* client nonce, whose salt decodes, and whose iteration count is at least
\* lowest.
WellFormedServerFirst(s, data, lowest) ==
    /\ Truthy(data)
    /\ LET match == SERVER_FIRST_MESSAGE_RE(data)
       IN  /\ match.ok
           /\ ~Truthy(match.mext)
           /\ s.c_nonce /= None
           /\ StartsWith(match.nonce, s.c_nonce)
           /\ a2b_base64(match.salt).ok
           /\ ParseInt(match.iteration_count) >= lowest

\* A server-final message that carries a verifier which decodes to something
\* else than the server signature the session computes.
VerifierDiffers(s, data) ==
    /\ Truthy(data)
    /\ LET match == SERVER_FINAL_MESSAGE_RE(data)
           verifier == a2b_base64(match.verifier)
       IN  /\ match.ok
           /\ Truthy(match.verifier)
           /\ verifier.ok
           /\ verifier.val /= ServerSignature(s)

\* A server-final message of the form "e=" token.
ServerError(data) ==
    /\ Truthy(data)
    /\ SERVER_FINAL_MESSAGE_RE(data).ok
    /\ Truthy(SERVER_FINAL_MESSAGE_RE(data).error)

\* A message with a grammar error, for a session at the server-first step
\* (first) or at the server-final step: an empty message, one that does not
\* match the grammar of the step, an m= extension, or base64 that does not
\* decode.
GrammarError(first, data) ==
    \/ data = << >>
    \/ /\ Truthy(data)
       /\ first
       /\ LET match == SERVER_FIRST_MESSAGE_RE(data)
          IN  \/ ~match.ok
              \/ Truthy(match.mext)
              \/ ~a2b_base64(match.salt).ok
    \/ /\ Truthy(data)
       /\ ~first
       /\ LET match == SERVER_FINAL_MESSAGE_RE(data)
          IN  \/ ~match.ok
              \/ (Truthy(match.verifier) /\ ~a2b_base64(match.verifier).ok)

\* The reasons of the failures the client detects itself.
LocalReasons == {BAD_CHALLENGE, BAD_SUCCES, BAD_SUCCESS, EXTRA_CHALLENGE}

\* The last call was a challenge() or a finish().
MessageCall(c) == c.op \in {"challenge", "finish"}

-----------------------------------------------------------------------------
(* The claims.                                                             *)

\* C1: over every sequence of start(), challenge() and finish() calls on a
\* session, a call returns Success only if that call or an earlier one was
\* handed a server-final message whose decoded verifier equalled the server
\* signature HMAC(HMAC(salted_password, "Server Key"), auth_message) the
\* session computes: no Success for a session whose server was not verified.
C1_SuccessOnlyAfterVerifiedServer ==
    ret.kind = "Success" => (server_verified /\ finished)

\* finish() itself was handed the matching verifier and returned Success.
C1_Witness ==
    /\ call.op = "finish"
    /\ Truthy(call.arg)
    /\ SERVER_FINAL_MESSAGE_RE(call.arg).ok
    /\ ret.kind = "Success"
    /\ server_verified

\* C2: the honest exchange completes. For a session that sent its
\* client-first message, challenge() with a well-formed server-first message
\* (no m= extension, nonce starting with the client nonce, decodable salt,
\* iteration count at least 1) returns a Response with the client-final
\* message; then challenge() with a server-final message whose verifier
\* equals the server signature makes the session Finished without a Failure;
\* then finish() returns Success with the username and authzid of start().
C2_HonestExchangeCompletes ==
    [][ /\ (/\ AwaitingServerFirst(Self)
            /\ call'.op = "challenge"
            /\ WellFormedServerFirst(Self, call'.arg, 1))
           => (/\ ret'.kind = "Response"
               /\ StartsWith(ret'.data, << 99, 61 >>)
               /\ AwaitingServerFinal(Self'))
        /\ (/\ AwaitingServerFinal(Self)
            /\ call'.op = "challenge"
            /\ VerifierMatches(Self, call'.arg))
           => (finished' /\ ret'.kind = "Response")
        /\ (finished /\ call'.op = "finish")
           => ret' = Success(username, authzid)
      ]_vars

\* C3, as the code has it: once the session is Finished, every further
\* challenge() with a non-empty argument returns Failure("extra-challenge"),
\* one with an empty or absent argument returns Failure("bad-challenge"),
\* and the session stays Finished.
C3_ChallengeAfterFinished ==
    [][ (finished /\ call'.op = "challenge")
           => (/\ finished'
               /\ ret' = IF Truthy(call'.arg) THEN Failure(EXTRA_CHALLENGE)
                         ELSE Failure(BAD_CHALLENGE))
      ]_vars

\* A challenge() on a Finished session was answered "extra-challenge".
C3_Witness ==
    /\ finished
    /\ call.op = "challenge"
    /\ Truthy(call.arg)
    /\ ret = Failure(EXTRA_CHALLENGE)

\* C3, as stated: once the session is Finished, every further challenge(),
\* whatever its argument (an empty one too), returns
\* Failure("extra-challenge") and the session stays Finished.
C3_AlwaysExtraChallenge ==
    [][ (finished /\ call'.op = "challenge")
           => (finished' /\ ret' = Failure(EXTRA_CHALLENGE))
      ]_vars

\* C4: challenge() on a freshly constructed session, before any start(),
\* returns Failure("bad-challenge") for every input, a syntactically valid
\* server-first message included, and does not raise.
C4_ChallengeBeforeStart ==
    [][ (FreshSession /\ call'.op = "challenge")
           => ret' = Failure(BAD_CHALLENGE)
      ]_vars

\* C5: in every reachable state and for every argument, challenge() and
\* finish() return a Response, a Success or a Failure and never raise.
C5_MessageCallsNeverRaise ==
    MessageCall(call) => ret.kind \in {"Response", "Success", "Failure"}

\* C6: challenge() on a session awaiting the server-first message, with a
\* well-formed one whose nonce does not start with the client nonce, returns
\* Failure("bad-challenge"), and from then on no challenge() or finish()
\* returns a Response or a Success or makes the session Finished.
C6_NonceMismatchIsFinal ==
    [][ /\ (call'.op = "challenge" /\ NonceMismatch(Self, call'.arg))
           => ret' = Failure(BAD_CHALLENGE)
        /\ (nonce_rejected' /\ MessageCall(call'))
           => (ret'.kind \notin {"Response", "Success"} /\ ~finished')
      ]_vars

\* After a nonce mismatch, a server-first message with the right nonce was
\* handed to challenge(), and was refused.
C6_Witness ==
    /\ nonce_rejected
    /\ call.op = "challenge"
    /\ WellFormedServerFirst(Self, call.arg, 1)
    /\ ret.kind = "Failure"
    /\ ~finished

\* C7: for a session awaiting the server-final message, a server-final
\* message, given to challenge() or to finish(), whose verifier decodes to a
\* value other than the computed server signature yields
\* Failure("bad-succes") and the session does not become Finished.
C7_VerifierMismatchRejected ==
    [][ (/\ AwaitingServerFinal(Self)
         /\ MessageCall(call')
         /\ VerifierDiffers(Self, call'.arg))
           => (ret' = Failure(BAD_SUCCES) /\ ~finished')
      ]_vars

\* A verifier that differs from the server signature was handed to finish()
\* by a session that had derived its keys, and was refused.
C7_Witness ==
    /\ AwaitingServerFinal(Self)
    /\ call.op = "finish"
    /\ VerifierDiffers(Self, call.arg)
    /\ ret = Failure(BAD_SUCCES)

\* C8: for a session awaiting the server-final message, a server-final
\* message "e=" token yields Failure("scram-" + token), whose reason is none
\* of the locally detected ones, and the session does not become Finished.
C8_ServerErrorReported ==
    [][ (/\ AwaitingServerFinal(Self)
         /\ MessageCall(call')
         /\ ServerError(call'.arg))
           => (/\ ret'.kind = "Failure"
               /\ StartsWith(ret'.data, SCRAM_PREFIX)
               /\ Utf8Encode(From(ret'.data, Len(SCRAM_PREFIX) + 1))
                      = SERVER_FINAL_MESSAGE_RE(call'.arg).error
               /\ ret'.data \notin LocalReasons
               /\ ~finished')
      ]_vars

\* C9: every message with a grammar error (empty input, a server-first or
\* server-final message not matching its grammar, an m= extension, a
\* non-numeric iteration count, base64 that does not decode in the salt or
\* in the verifier) makes challenge() return Failure("bad-challenge").
C9_GrammarErrorsAreBadChallenge ==
    [][ (/\ call'.op = "challenge"
         /\ \/ AwaitingServerFirst(Self) /\ GrammarError(TRUE, call'.arg)
            \/ AwaitingServerFinal(Self) /\ GrammarError(FALSE, call'.arg))
           => ret' = Failure(BAD_CHALLENGE)
      ]_vars

\* C10: a server-first message, otherwise well-formed, whose iteration count
\* is zero is rejected by challenge() with a Failure: no salted password is
\* derived and no client-final Response is produced.
C10_ZeroIterationsRejected ==
    [][ (/\ AwaitingServerFirst(Self)
         /\ Normalize(password).ok
         /\ call'.op = "challenge"
         /\ WellFormedServerFirst(Self, call'.arg, 0)
         /\ ParseInt(SERVER_FIRST_MESSAGE_RE(call'.arg).iteration_count) = 0)
           => (ret'.kind = "Failure" /\ salted_password' = None)
      ]_vars

\* s starts with prefix and is longer than it.
StrictPrefix(prefix, s) == StartsWith(s, prefix) /\ Len(s) > Len(prefix)

\* The properties carry no channel-binding data: the key is absent or its
\* mapping is empty.
NoBindingData(properties) ==
    \/ ~properties.channel_binding.present
    \/ properties.channel_binding.items = << >>

\* C11: challenge() on a session awaiting the server-first message answers
\* Failure("bad-challenge") to every server-first message whose nonce does
\* not have the client nonce as a strict prefix; a server nonce equal to the
\* client nonce is rejected too.
C11_NonceStrictPrefix ==
    [][ (/\ AwaitingServerFirst(Self)
         /\ Normalize(password).ok
         /\ call'.op = "challenge"
         /\ Truthy(call'.arg)
         /\ SERVER_FIRST_MESSAGE_RE(call'.arg).ok
         /\ ~StrictPrefix(c_nonce, SERVER_FIRST_MESSAGE_RE(call'.arg).nonce))
           => ret' = Failure(BAD_CHALLENGE)
      ]_vars

\* C12: finish() on a session that has accepted no server-first message (a
\* new one, one awaiting the server-first message, one that rejected
\* server-first messages) returns Failure("bad-success"), never Success.
C12_FinishBeforeServerFirst ==
    [][ (auth_message = None /\ call'.op = "finish")
           => ret' = Failure(BAD_SUCCESS)
      ]_vars

\* C13: the session only moves forward and repeats no step it is past: a
\* start() after the client-first message was built changes neither nonce,
\* credentials nor gs2 header; a recorded server-first message and the keys
\* derived from it stay as they are; a Finished session stays Finished and
\* accepts no verifier again.
C13_ForwardOnly ==
    [][ /\ (client_first_message_bare /= False /\ call'.op = "start")
           => UNCHANGED << username, password, authzid, c_nonce, gs2_header,
                           client_first_message_bare >>
        /\ client_first_message_bare /= False
           => client_first_message_bare' /= False
        /\ Truthy(server_first_message)
           => server_first_message' = server_first_message
        /\ auth_message /= None
           => (/\ auth_message' = auth_message
               /\ salted_password' = salted_password)
        /\ finished => finished'
        /\ (finished /\ MessageCall(call')) => ret'.kind /= "Response"
      ]_vars

\* C14: in every state reached once the salted password is derived, whatever
\* start(), challenge() and finish() calls follow, the session holds no
\* plaintext password.
C14_NoPasswordAfterDerivation ==
    salted_password /= None => password = None

\* C15: start() on a session constructed with channel binding, with
\* properties that carry no channel-binding data (key absent or mapping
\* empty), raises and returns no Response: it builds no client-first
\* message and no gs2 header.
C15_MissingBindingIsSetupError ==
    [][ (/\ channel_binding
         /\ call'.op = "start"
         /\ NoBindingData(call'.properties))
           => (/\ ret' = Raised("ValueError")
               /\ UNCHANGED << client_first_message_bare, gs2_header >>)
      ]_vars

\* start() was called without the channel-binding key on a session that
\* requires binding, and raised.
C15_Witness ==
    /\ channel_binding
    /\ call.op = "start"
    /\ ~call.properties.channel_binding.present
    /\ ret.kind = "Raised"
    /\ client_first_message_bare = False

\* The channel-binding flag the gs2 header is to carry for the properties.
ExpectedCbFlag(binding_required, properties) ==
    LET items == properties.channel_binding.items
        cb_type == IF HasKey(items, TLS_UNIQUE) THEN TLS_UNIQUE
                   ELSE IF HasKey(items, TLS_SERVER_END_POINT)
                   THEN TLS_SERVER_END_POINT
                   ELSE items[1].type
    IN  IF binding_required THEN << 112, 61 >> \o Utf8Encode(cb_type)
        ELSE IF MechanismName(FALSE) \o PLUS \in properties.enabled_mechanisms
        THEN << 121 >>
        ELSE << 110 >>

\* The gs2 header for the properties: cb_flag "," ["a=" authzid] ",".
ExpectedGs2Header(binding_required, properties) ==
    ExpectedCbFlag(binding_required, properties) \o << 44 >>
        \o (IF Truthy(properties.authzid)
            THEN << 97, 61 >> \o Utf8Encode(properties.authzid)
            ELSE << >>)
        \o << 44 >>

\* The number of commas in a byte string.
Commas(s) == Cardinality({i \in 1..Len(s) : s[i] = 44})

\* The properties carry a username and a password, and binding data when
\* the session requires it.
SufficientProperties(binding_required, properties) ==
    /\ properties.username /= None
    /\ properties.password /= None
    /\ binding_required => ~NoBindingData(properties)

\* C16: a password the normalisation profile prohibits is a setup failure:
\* start() raises for it, before it returns the client-first message, and
\* the normalisation error never arises in challenge() or finish().
C16_ProhibitedPasswordIsSetupFailure ==
    [][ /\ (/\ call'.op = "start"
            /\ SufficientProperties(channel_binding, call'.properties)
            /\ ~Normalize(call'.properties.password).ok)
           => ret'.kind = "Raised"
        /\ MessageCall(call') => ret' /= Raised("StringprepError")
      ]_vars

\* C17: when challenge() accepts a server-first message, the auth message
\* becomes client_first_message_bare "," the message as received (trailing
\* extensions included) "," client_final_message_without_proof, and the
\* proof of the returned client-final message is computed over it; once set
\* the auth message never changes; a verifier is accepted only if it equals
\* the server signature computed over that same auth message.
C17_AuthMessageFixed ==
    [][ /\ (call'.op = "challenge" /\ ret'.kind = "Response"
                /\ ret'.data /= None)
           => LET bare == client_first_message_bare
                  without_proof ==
                      From(auth_message', Len(bare) + Len(call'.arg) + 3)
                  client_key == HMAC(salted_password', CLIENT_KEY)
                  client_signature == HMAC(H(client_key), auth_message')
              IN  /\ auth_message' /= None
                  /\ auth_message' = bare \o << 44 >> \o call'.arg
                                          \o << 44 >> \o without_proof
                  /\ ret'.data = without_proof \o << 44, 112, 61 >>
                         \o standard_b64encode(XOR(client_key,
                                                   client_signature))
        /\ auth_message /= None => auth_message' = auth_message
        /\ (auth_message /= None /\ ~finished /\ finished')
           => VerifierMatches(Self, call'.arg)
      ]_vars

\* challenge() accepted a server-first message with trailing extensions.
C17_Witness ==
    /\ call.op = "challenge"
    /\ ret.kind = "Response"
    /\ Len(call.arg) > Len(EXTENSION)
    /\ From(call.arg, Len(call.arg) - Len(EXTENSION) + 1) = EXTENSION
    /\ auth_message /= None
    /\ server_first_message = call.arg

\* C18: the gs2 header start() builds is cb_flag "," ["a=" authzid] ",",
\* with cb_flag "p=<type>" on a session with channel binding (tls-unique if
\* present, else tls-server-end-point if present, else another type of the
\* binding data), "y" on a session without it when the "-PLUS" name of its
\* mechanism is enabled, "n" otherwise; the client-first message returned is
\* the header followed by "n=" username ",r=" client nonce.
C18_Gs2Header ==
    [][ (/\ call'.op = "start"
         /\ SufficientProperties(channel_binding, call'.properties))
           => LET header ==
                      ExpectedGs2Header(channel_binding, call'.properties)
              IN  /\ gs2_header' = header
                  /\ ret' = Response(header \o << 110, 61 >>
                                \o Utf8Encode(call'.properties.username)
                                \o << 44, 114, 61 >> \o c_nonce')
      ]_vars

\* C19: the client-final message challenge() returns is "c=" base64(gs2
\* header, followed by the channel-binding data of start() on a session with
\* channel binding), ",r=" and the nonce as received in the server-first
\* message, ",p=" base64(XOR(client_key, client_signature)), where
\* client_key = HMAC(salted_password, "Client Key") and client_signature =
\* HMAC(H(client_key), auth_message).
C19_ClientFinalMessage ==
    [][ (call'.op = "challenge" /\ ret'.kind = "Response"
             /\ ret'.data /= None)
           => LET client_key == HMAC(salted_password', CLIENT_KEY)
                  client_signature == HMAC(H(client_key), auth_message')
                  bound == IF channel_binding THEN gs2_header \o cb_data
                           ELSE gs2_header
              IN  ret'.data =
                      << 99, 61 >> \o standard_b64encode(bound)
                          \o << 44, 114, 61 >>
                          \o SERVER_FIRST_MESSAGE_RE(call'.arg).nonce
                          \o << 44, 112, 61 >>
                          \o standard_b64encode(XOR(client_key,
                                                    client_signature))
      ]_vars

\* A session with channel binding returned its client-final message.
C19_Witness ==
    /\ channel_binding
    /\ cb_data /= None
    /\ call.op = "challenge"
    /\ ret.kind = "Response"
    /\ ret.data /= None
    /\ StartsWith(ret.data, << 99, 61 >>)

\* C20: for every username and every nonce the factory returns, the
\* username and the nonce of the client-first message start() produces hold
\* no comma, and its bare part splits at commas into exactly "n=" and "r=".
C20_NoCommaInClientFirst ==
    [][ (call'.op = "start" /\ ret'.kind = "Response")
           => (/\ Commas(Utf8Encode(username')) = 0
               /\ Commas(c_nonce') = 0
               /\ Commas(client_first_message_bare') = 1)
      ]_vars

\* The outcome is a client-final message: a Response of challenge() that
\* carries data.
ClientFinal(c, r) ==
    c.op = "challenge" /\ r.kind = "Response" /\ r.data /= None

\* C21: for a session awaiting the server-final message, finish(data)
\* verifies as the final challenge(data) does: it returns Success with the
\* username and authzid exactly when challenge(data) accepts the verifier,
\* and otherwise the outcome challenge(data) has; on a Finished session
\* finish(data) returns Success whatever data is.
C21_FinishVerifiesAsChallenge ==
    [][ /\ (AwaitingServerFinal(Self) /\ call'.op = "finish")
           => LET r == challenge(Self, call'.arg)
              IN  IF r.self.finished
                  THEN finished' /\ ret' = Success(username, authzid)
                  ELSE ~finished' /\ ret' = r.ret
        /\ (finished /\ call'.op = "finish")
           => ret' = Success(username, authzid)
      ]_vars

-----------------------------------------------------------------------------
(* The claims about the operations.                                        *)

\* U1 = HMAC(password, salt ++ 0x00000001), Uk = HMAC(password, U(k-1)).
RECURSIVE Un(_, _, _)
Un(p, s, k) ==
    IF k <= 1 THEN HMAC(p, s \o << 0, 0, 0, 1 >>)
    ELSE HMAC(p, Un(p, s, k - 1))

\* The XOR of U1..Un.
RECURSIVE XorFold(_, _, _)
XorFold(p, s, n) ==
    IF n <= 1 THEN Un(p, s, 1)
    ELSE XOR(XorFold(p, s, n - 1), Un(p, s, n))

\* C22: XOR(a, b) needs inputs of equal length: called with byte strings of
\* different lengths it fails instead of returning a result.
C22_XorRejectsUnequalLengths ==
    (xor_frame.called /\ Len(xor_frame.str1) /= Len(xor_frame.str2))
        => xor_frame.ret.kind = "Raised"

\* C23: for every password, salt and iteration count n >= 1, Hi returns the
\* XOR of U1..Un, which for n = 1 is HMAC(password, salt ++ 0x00000001),
\* after exactly n evaluations of HMAC, and every call of Hi returns.
C23_HiIsXorFold ==
    /\ [] ((hi_frame.pc = "done" /\ hi_frame.i >= 1)
             => (/\ hi_frame.result
                        = XorFold(hi_frame.str_, hi_frame.salt, hi_frame.i)
                 /\ hi_frame.result
                        = Hi(hi_frame.str_, hi_frame.salt, hi_frame.i)
                 /\ hi_frame.calls = hi_frame.i
                 /\ hi_frame.i = 1
                        => hi_frame.result
                               = HMAC(hi_frame.str_,
                                      hi_frame.salt \o << 0, 0, 0, 1 >>)))
    /\ <> (hi_frame.pc = "done")

\* A call of Hi with an iteration count of 2 or more has returned.
C23_Witness ==
    /\ hi_frame.pc = "done"
    /\ hi_frame.i >= 2
    /\ hi_frame.calls = hi_frame.i

-----------------------------------------------------------------------------
(* The claim about two sessions.                                           *)

\* C24: two sessions driven at once are isolated, whatever the order in
\* which their calls begin and return: the fields of each session and the
\* outcome of each of its calls are those of the same session driven by
\* itself with the same calls.
C24_SessionsIsolated ==
    \A k \in Sessions :
        /\ threads[k].pc = "idle"
               => /\ sessions[k] = alone[k].self
                  /\ threads[k].ret = alone[k].ret
        /\ threads[k].pc = "running"
               => threads[k].r = alone[k]

\* Both sessions have exchanged messages: one has accepted its server, the
\* other has derived its keys and rejected a verifier.
C24_Witness ==
    /\ threads[1].pc = "idle"
    /\ threads[2].pc = "idle"
    /\ sessions[1].finished
    /\ threads[1].ret.kind = "Success"
    /\ ~sessions[2].finished
    /\ sessions[2].salted_password /= None
    /\ threads[2].ret.kind = "Failure"

-----------------------------------------------------------------------------
(* The claims about the life of a session.                                 *)

\* C25: Failed is terminal: once a call of challenge() or finish() has
\* returned a Failure, no later call produces a client-final Response, marks
\* the session Finished, or makes finish() return Success -- here for the
\* call that follows the failed one.
C25_FailedIsTerminal ==
    [][ (MessageCall(call) /\ ret.kind = "Failure")
           => /\ ~ClientFinal(call', ret')
              /\ ~(finished' /\ ~finished)
              /\ ret'.kind /= "Success"
      ]_vars

\* C26: a session that has recorded a server-first message has derived its
\* salted password and built its auth message.
C26_RecordedImpliesDerived ==
    Truthy(server_first_message)
        => (salted_password /= None /\ auth_message /= None)

\* C27: a session produces at most one client-final message and derives its
\* salted password at most once: a session that has recorded a server-first
\* message keeps it, answers no later challenge() with a client-final
\* Response and leaves its salted password as it is, and a salted password is
\* only ever held by a session that has recorded a server-first message.
C27_OneClientFinal ==
    [][ /\ Truthy(server_first_message)
            => /\ server_first_message' = server_first_message
               /\ salted_password' = salted_password
               /\ ~ClientFinal(call', ret')
        /\ salted_password /= None => Truthy(server_first_message)
        /\ salted_password' /= None => Truthy(server_first_message')
      ]_vars

\* A session that has derived its keys was handed a further well-formed
\* server-first message and did not answer it.
C27_Witness ==
    /\ salted_password /= None
    /\ auth_message /= None
    /\ call.op = "challenge"
    /\ call.arg /= None
    /\ SERVER_FIRST_MESSAGE_RE(call.arg).ok
    /\ ret.kind = "Failure"

\* part occurs in s.
Contains(s, part) ==
    \E i \in 1..(Len(s) - Len(part) + 1) :
        SubSeq(s, i, i + Len(part) - 1) = part

\* The auth message was built from a client-first message naming user and
\* authz: it starts with "n=" user ",r=" and its "c=" carries a gs2 header
\* with that authorization id.
IdentitySent(message, s, user, authz) ==
    /\ StartsWith(message,
                  << 110, 61 >> \o Utf8Encode(user) \o << 44, 114, 61 >>)
    /\ \E properties \in StartInputs(s) :
           \E data \in {<< >>}
                       \cup {properties.channel_binding.items[i].data :
                                 i \in 1..Len(properties.channel_binding.items)} :
               /\ s.channel_binding => ~NoBindingData(properties)
               /\ Contains(message,
                           << 44, 99, 61 >>
                           \o standard_b64encode(
                                  ExpectedGs2Header(
                                      s.channel_binding,
                                      [properties EXCEPT !.authzid = authz])
                                  \o data)
                           \o << 44, 114, 61 >>)

\* C28: the username and authzid a Success carries are those of the
\* client-first message of the exchange whose verifier was accepted, the
\* one the session's auth message was built from, whatever start() was
\* given since.
C28_SuccessIdentity ==
    ret.kind = "Success"
        => /\ auth_message /= None
           /\ IdentitySent(auth_message, Self, ret.username, ret.authzid)

====
